---- MODULE Spec2Model ----
(***************************************************************************)
(* Model of sodiumoxide's secretstream wrapper                             *)
(* (src/crypto/secretstream/secretstream_macros.rs): the Encryptor and     *)
(* Decryptor types generated by the stream_module! macro around the        *)
(* crypto_secretstream_* primitives of libsodium.                          *)
(*                                                                         *)
(* The primitives are not part of the Rust source.  They are modelled      *)
(* symbolically: a stream state is the triple (k, counter, inonce) that    *)
(* the primitive keeps, key derivation / rekey / authenticator are         *)
(* injective term constructors (the AEAD is assumed correct and            *)
(* collision-resistant), and a ciphertext is the authenticator term it     *)
(* was sealed with, its length in bytes and the set of bit positions       *)
(* that were flipped in transit.                                           *)
(***************************************************************************)
EXTENDS Integers, Sequences, FiniteSets, TLC

(***************************************************************************)
(* Program constants (macro parameters, instantiated for                   *)
(* xchacha20poly1305).                                                     *)
(***************************************************************************)
ABYTES == 17

TAG_MESSAGE == 0

TAG_PUSH == 1

TAG_REKEY == 2

TAG_FINAL == 3

(***************************************************************************)
(* Bounds of the model.                                                    *)
(***************************************************************************)
MaxChunks == 2

MaxRekeys == 1

MaxForged == 1

\* calls of rekey() per side where both sides follow the stream in step
MaxRekeysInRow == 2

(***************************************************************************)
(* Input domains.                                                          *)
(***************************************************************************)
Keys == {1}

Headers == {1, 2}

None == <<>>

Some(x) == <<x>>

AdOpts == {None, Some(<<>>), Some(<<5>>)}

\* (plaintext, associated data) of a chunk: an empty and a non-empty plaintext,
\* no, empty and non-empty associated data
Payloads == {<<<<7>>, None>>, <<<<>>, Some(<<>>)>>, <<<<7>>, Some(<<5>>)>>}

\* tag bytes a key holder can seal a chunk with through the push primitive:
\* TAG_MESSAGE, and two that no Tag variant stands for (4: no rekey bit, 6:
\* rekey bit set)
ForgedTags == {0, 4, 6}

(***************************************************************************)
(* Option<&[u8]> -> (pointer, length): None and Some(empty) both give      *)
(* length 0, so the primitive sees the same associated data bytes.         *)
(***************************************************************************)
AdBytes(ad) == IF ad = None THEN <<>> ELSE ad[1]

(***************************************************************************)
(* Tag and Result values.                                                  *)
(***************************************************************************)
Tags == {"Message", "Push", "Rekey", "Final"}

Ok(v) == [kind |-> "Ok", val |-> v]

Err == [kind |-> "Err"]

Panic == [kind |-> "Panic"]

\* TAG_PUSH decoded as Tag::Message
_tag_from_byte_push_as_message(tag) ==
    CASE tag = TAG_MESSAGE -> Ok("Message")
      [] tag = TAG_PUSH -> Ok("Message")
      [] tag = TAG_REKEY -> Ok("Rekey")
      [] tag = TAG_FINAL -> Ok("Final")
      [] OTHER -> Err

\* an unknown byte decoded as Tag::Message
_tag_from_byte_default_message(tag) ==
    CASE tag = TAG_PUSH -> Ok("Push")
      [] tag = TAG_REKEY -> Ok("Rekey")
      [] tag = TAG_FINAL -> Ok("Final")
      [] OTHER -> Ok("Message")

_tag_from_byte(tag) ==
    CASE tag = TAG_MESSAGE -> Ok("Message")
      [] tag = TAG_PUSH -> Ok("Push")
      [] tag = TAG_REKEY -> Ok("Rekey")
      [] tag = TAG_FINAL -> Ok("Final")
      [] OTHER -> Err

(***************************************************************************)
(* The primitives.  Their code is not part of the source; they are         *)
(* modelled by what the program built on them does when it runs: the state *)
(* after a chunk depends on the chunk (its authenticator is mixed into the *)
(* nonce), and a pull that fails leaves the state as it was.               *)
(***************************************************************************)
\* tag & TAG_REKEY != 0 for a u8 tag
HasRekeyBit(tagb) == (tagb \div TAG_REKEY) % 2 = 1

\* value of a state before init fills it
ZeroState == [k |-> <<0, 0>>, ctr |-> 0, inonce |-> <<0>>]

\* what the memory of a state can hold before init fills it
Uninitialized == {ZeroState, [k |-> <<0, 0>>, ctr |-> 9, inonce |-> <<0>>]}

\* init_push(state, header, key): writes the fresh header h and every field
\* of the state: k = KDF(key, header), counter = 1, inonce from header
secretstream_init_push(S, K, h) ==
    [err |-> 0, header |-> h,
     st |-> [S EXCEPT !.k = <<K, h>>, !.ctr = 1, !.inonce = <<h>>]]

\* init_pull(state, header, key): writes every field of the state:
\* k = KDF(key, header), counter = 1, inonce from header
secretstream_init_pull(S, h, K) ==
    [err |-> 0,
     st |-> [S EXCEPT !.k = <<K, h>>, !.ctr = 1, !.inonce = <<h>>]]

\* rekey: (k, inonce) := PRF_k(nonce)(k || inonce), counter := 1
secretstream_rekey(S) ==
    [k |-> <<S.k, S.ctr, S.inonce>>, ctr |-> 1,
     inonce |-> <<S.k, S.ctr, S.inonce, 0>>]

\* the authenticator of a chunk: keyed by (k, counter, inonce), over the
\* associated data, the encrypted tag byte and the encrypted message
Mac(S, adb, tagb, m) == <<S.k, S.ctr, S.inonce, adb, tagb, m>>

\* the chunk step: inonce ^= mac, counter++
ChunkAdvance(S, mac) ==
    [k |-> S.k, ctr |-> S.ctr + 1, inonce |-> <<S.inonce, mac>>]

\* state after a chunk: the chunk step, then a rekey on the rekey bit.
\* (The primitive also rekeys when the 32-bit counter wraps to 0, which takes
\* 2^32 - 1 chunks without any rekey: no stream of this model gets there.)
ChunkStep(S, mac, tagb) ==
    IF HasRekeyBit(tagb)
    THEN secretstream_rekey(ChunkAdvance(S, mac))
    ELSE ChunkAdvance(S, mac)

\* push: returns err = 0, the sealed bytes, clen = mlen + ABYTES, new state
secretstream_push(S, m, adb, tagb) ==
    LET mac == Mac(S, adb, tagb, m)
    IN [err |-> 0, sealed |-> mac, clen |-> Len(m) + ABYTES,
        st |-> ChunkStep(S, mac, tagb)]

\* a ciphertext as a byte string: what was sealed, how long it is, which
\* bits differ from what was sealed
Cipher(sealed, len) == [sealed |-> sealed, len |-> len, flips |-> {}]

FlipBit(c, b) ==
    [c EXCEPT !.flips = (c.flips \ {b}) \cup ({b} \ c.flips)]

Truncate(c, n) == [c EXCEPT !.len = n]

\* pull: -1 on a short input or a wrong authenticator (state untouched),
\* else 0 with message, mlen = clen - ABYTES, tag byte and the new state
secretstream_pull(S, c, adb) ==
    IF c.len < ABYTES THEN [err |-> -1, st |-> S]
    ELSE IF \/ c.flips # {}
            \/ Len(c.sealed) # 6
            \/ c.len # Len(c.sealed[6]) + ABYTES
            \/ c.sealed # Mac(S, adb, c.sealed[5], c.sealed[6])
         THEN [err |-> -1, st |-> S]
         ELSE [err |-> 0, m |-> c.sealed[6], mlen |-> c.len - ABYTES,
               tag |-> c.sealed[5],
               st |-> ChunkStep(S, c.sealed, c.sealed[5])]

(***************************************************************************)
(* Encryptor::_push and Decryptor::decrypt as functions of the state they  *)
(* act on.                                                                 *)
(***************************************************************************)
\* the vector's length is set to the message's, not to clen
_push_len_of_message(S, m, ad, tag) ==
    LET r == secretstream_push(S, m, AdBytes(ad), tag)
    IN IF r.err # 0
       THEN [res |-> Err, st |-> r.st]
       ELSE [res |-> Ok(Cipher(r.sealed, Len(m))), st |-> r.st]

\* the primitive works on a copy of the state: self.0 is never written back
_push_on_copy(S, m, ad, tag) ==
    LET r == secretstream_push(S, m, AdBytes(ad), tag)
    IN IF r.err # 0
       THEN [res |-> Err, st |-> S]
       ELSE [res |-> Ok(Cipher(r.sealed, r.clen)), st |-> S]

_push(S, m, ad, tag) ==
    LET r == secretstream_push(S, m, AdBytes(ad), tag)
    IN IF r.err # 0
       THEN [res |-> Err, st |-> r.st]
       ELSE [res |-> Ok(Cipher(r.sealed, r.clen)), st |-> r.st]

\* the pull primitive's return value is not looked at: the call goes on with the
\* buffer as allocated (mlen bytes, here zeroes) and tag = 0
decrypt_ignore_pull_error(S, fin, c, ad) ==
    IF c.len < ABYTES
    THEN [res |-> Panic, st |-> S, fin |-> fin]
    ELSE LET r == secretstream_pull(S, c, AdBytes(ad))
             m == IF r.err # 0 THEN [j \in 1..(c.len - ABYTES) |-> 0] ELSE r.m
             t == _tag_from_byte(IF r.err # 0 THEN 0 ELSE r.tag)
         IN IF t.kind = "Err"
            THEN [res |-> Err, st |-> r.st, fin |-> fin]
            ELSE [res |-> Ok(<<m, t.val>>), st |-> r.st,
                  fin |-> fin \/ t.val = "Final"]

\* the associated data is not handed to the primitive
decrypt_without_ad(S, fin, c, ad) ==
    IF c.len < ABYTES
    THEN [res |-> Panic, st |-> S, fin |-> fin]
    ELSE LET r == secretstream_pull(S, c, AdBytes(None))
         IN IF r.err # 0
            THEN [res |-> Err, st |-> r.st, fin |-> fin]
            ELSE LET t == _tag_from_byte(r.tag)
                 IN IF t.kind = "Err"
                    THEN [res |-> Err, st |-> r.st, fin |-> fin]
                    ELSE [res |-> Ok(<<r.m, t.val>>), st |-> r.st,
                          fin |-> fin \/ t.val = "Final"]

\* the flag follows the latest tag instead of being set once
decrypt_flag_follows_tag(S, fin, c, ad) ==
    IF c.len < ABYTES
    THEN [res |-> Panic, st |-> S, fin |-> fin]
    ELSE LET r == secretstream_pull(S, c, AdBytes(ad))
         IN IF r.err # 0
            THEN [res |-> Err, st |-> r.st, fin |-> fin]
            ELSE LET t == _tag_from_byte(r.tag)
                 IN IF t.kind = "Err"
                    THEN [res |-> Err, st |-> r.st, fin |-> fin]
                    ELSE [res |-> Ok(<<r.m, t.val>>), st |-> r.st,
                          fin |-> (t.val = "Final")]

\* the flag is set when the tag byte has any bit of TAG_FINAL
decrypt_flag_on_final_bits(S, fin, c, ad) ==
    IF c.len < ABYTES
    THEN [res |-> Panic, st |-> S, fin |-> fin]
    ELSE LET r == secretstream_pull(S, c, AdBytes(ad))
         IN IF r.err # 0
            THEN [res |-> Err, st |-> r.st, fin |-> fin]
            ELSE LET t == _tag_from_byte(r.tag)
                 IN IF t.kind = "Err"
                    THEN [res |-> Err, st |-> r.st, fin |-> fin]
                    ELSE [res |-> Ok(<<r.m, t.val>>), st |-> r.st,
                          fin |-> fin \/ (r.tag % (TAG_FINAL + 1)) # 0]

\* a failed pull marks the stream finalized
decrypt_poison_on_error(S, fin, c, ad) ==
    IF c.len < ABYTES
    THEN [res |-> Panic, st |-> S, fin |-> fin]
    ELSE LET r == secretstream_pull(S, c, AdBytes(ad))
         IN IF r.err # 0
            THEN [res |-> Err, st |-> r.st, fin |-> TRUE]
            ELSE LET t == _tag_from_byte(r.tag)
                 IN IF t.kind = "Err"
                    THEN [res |-> Err, st |-> r.st, fin |-> fin]
                    ELSE [res |-> Ok(<<r.m, t.val>>), st |-> r.st,
                          fin |-> fin \/ t.val = "Final"]

\* c.len() - ABYTES on usize underflows for a short c: the subtraction panics
\* in a build with overflow checks, and wraps to a capacity above isize::MAX
\* that makes Vec::with_capacity panic in a build without them.
decrypt(S, fin, c, ad) ==
    IF c.len < ABYTES
    THEN [res |-> Panic, st |-> S, fin |-> fin]
    ELSE LET r == secretstream_pull(S, c, AdBytes(ad))
         IN IF r.err # 0
            THEN [res |-> Err, st |-> r.st, fin |-> fin]
            ELSE LET t == _tag_from_byte(r.tag)
                 IN IF t.kind = "Err"
                    THEN [res |-> Err, st |-> r.st, fin |-> fin]
                    ELSE [res |-> Ok(<<r.m, t.val>>), st |-> r.st,
                          fin |-> fin \/ t.val = "Final"]

(***************************************************************************)
(* State.                                                                  *)
(***************************************************************************)
VARIABLES
    encPhase,        \* "uninit" | "ready" | "consumed" (moved into finalize)
    encKey,          \* key given to Encryptor::init (0: none yet)
    header,          \* Header returned by Encryptor::init (0: none yet)
    encState,        \* Encryptor.0
    encLog,          \* what the Encryptor did so far: chunks and rekeys
    decPhase,        \* "uninit" | "ready"
    decInit,         \* <<header, key>> given to Decryptor::init
    decState,        \* Decryptor.state
    flag_finalized,  \* Decryptor.flag_finalized
    track,           \* n: the Decryptor's calls so far mirror encLog[1..n];
                     \* -1: they do not
    forged,          \* chunks sealed with a raw tag byte by a key holder
    derail,          \* the first delivery of a chunk ahead of the chunk the
                     \* Decryptor stood at (NoDerail: there was none)
    decRekeys,       \* calls of Decryptor::rekey
    last,            \* the Decryptor's latest call
    enc2,            \* a second Encryptor: phase, key, header, state, log
    dec2,            \* a second Decryptor: phase, init, state,
                     \* flag_finalized, rekeys, last
    seen             \* the call of the first Decryptor that the second one
                     \* repeated last

vars == <<encPhase, encKey, header, encState, encLog, decPhase, decInit,
          decState, flag_finalized, track, forged, derail, decRekeys, last,
          enc2, dec2, seen>>

\* the second pair of instances
twoVars == <<enc2, dec2, seen>>

encVars == <<encPhase, encKey, header, encState, encLog>>

decVars == <<decPhase, decInit, decState, flag_finalized, track, forged,
            derail, decRekeys, last>>

NoCall == [op |-> "none"]

NoDerail == [at |-> 0, got |-> 0, first |-> FALSE]

Init ==
    /\ encPhase = "uninit"
    /\ encKey = 0
    /\ header = 0
    /\ encState = ZeroState
    /\ encLog = <<>>
    /\ decPhase = "uninit"
    /\ decInit = <<0, 0>>
    /\ decState = ZeroState
    /\ flag_finalized = FALSE
    /\ track = -1
    /\ forged = 0
    /\ derail = NoDerail
    /\ decRekeys = 0
    /\ last = NoCall
    /\ enc2 = [phase |-> "uninit", key |-> 0, header |-> 0,
               state |-> ZeroState, log |-> <<>>]
    /\ dec2 = [phase |-> "uninit", init |-> <<0, 0>>, state |-> ZeroState,
               flag_finalized |-> FALSE, rekeys |-> 0, last |-> NoCall]
    /\ seen = NoCall

NumChunks == Cardinality({i \in 1..Len(encLog) : encLog[i].op = "chunk"})

NumEncRekeys == Cardinality({i \in 1..Len(encLog) : encLog[i].op = "rekey"})

(***************************************************************************)
(* Encryptor.                                                              *)
(***************************************************************************)
\* Encryptor::init with h the header the primitive generates.  state and
\* header start as uninitialized memory that the primitive fills; on err # 0
\* the call returns Err(()) and there is no Encryptor.
Encryptor_init(key, h) ==
    /\ encPhase = "uninit"
    /\ \E u \in Uninitialized :
          LET r == secretstream_init_push(u, key, h)
          IN /\ r.err = 0
             /\ encState' = r.st
             /\ header' = r.header
    /\ encPhase' = "ready"
    /\ encKey' = key
    /\ UNCHANGED <<encLog, decVars, twoVars>>

\* one call of a chunk-producing method; consume: the method takes self by value
EncChunk(m, ad, tag, method, consume) ==
    LET r == _push(encState, m, ad, tag)
    IN /\ encPhase = "ready"
       /\ NumChunks < MaxChunks
       /\ encState' = r.st
       /\ encLog' = Append(encLog, [op |-> "chunk", method |-> method,
                                    m |-> m, ad |-> ad, pre |-> encState,
                                    res |-> r.res])
       /\ encPhase' = IF consume THEN "consumed" ELSE "ready"
       /\ UNCHANGED <<encKey, header, decVars, twoVars>>

message(m, ad) == EncChunk(m, ad, TAG_MESSAGE, "message", FALSE)

push(m, ad) == EncChunk(m, ad, TAG_PUSH, "push", FALSE)

rekey_message(m, ad) == EncChunk(m, ad, TAG_REKEY, "rekey_message", FALSE)

\* finalize taking &mut self: the Encryptor stays usable
finalize_by_reference(m, ad) == EncChunk(m, ad, TAG_FINAL, "finalize", FALSE)

finalize(m, ad) == EncChunk(m, ad, TAG_FINAL, "finalize", TRUE)

\* rekey that leaves the state as it is
Encryptor_rekey_no_transition(bound) ==
    /\ encPhase = "ready"
    /\ NumEncRekeys < bound
    /\ encState' = encState
    /\ encLog' = Append(encLog, [op |-> "rekey", pre |-> encState])
    /\ UNCHANGED <<encPhase, encKey, header, decVars, twoVars>>

\* Encryptor::rekey, called at most bound times
Encryptor_rekey_upto(bound) ==
    /\ encPhase = "ready"
    /\ NumEncRekeys < bound
    /\ encState' = secretstream_rekey(encState)
    /\ encLog' = Append(encLog, [op |-> "rekey", pre |-> encState])
    /\ UNCHANGED <<encPhase, encKey, header, decVars, twoVars>>

Encryptor_rekey == Encryptor_rekey_upto(MaxRekeys)

(***************************************************************************)
(* Decryptor.                                                              *)
(***************************************************************************)
IsChunk(i) == i \in 1..Len(encLog) /\ encLog[i].op = "chunk"

ChunkIds == {i \in 1..Len(encLog) : IsChunk(i)}

\* the ciphertext chunk i went out as (_push never fails in this model)
Wire(i) == encLog[i].res.val

\* the Decryptor's call mirrors the Encryptor's next operation
Mirrors(op, c, ad) ==
    /\ track >= 0
    /\ track < Len(encLog)
    /\ encLog[track + 1].op = op
    /\ op = "chunk" => (encLog[track + 1].res = Ok(c) /\ encLog[track + 1].ad = ad)

\* the Decryptor is built from a state the primitive did not write: the
\* primitive filled a copy
Decryptor_init_on_copy(h, key) ==
    /\ decPhase = "uninit"
    /\ \E u \in Uninitialized :
          LET r == secretstream_init_pull(u, h, key)
          IN /\ r.err = 0
             /\ decState' = u
    /\ decPhase' = "ready"
    /\ decInit' = <<h, key>>
    /\ flag_finalized' = FALSE
    /\ track' = 0
    /\ last' = [op |-> "init"]
    /\ UNCHANGED <<encVars, twoVars, forged, derail, decRekeys>>

\* Decryptor::init.  state starts as uninitialized memory that the primitive
\* fills; on err # 0 the call returns Err(()) and there is no Decryptor.
Decryptor_init(h, key) ==
    /\ decPhase = "uninit"
    /\ \E u \in Uninitialized :
          LET r == secretstream_init_pull(u, h, key)
          IN /\ r.err = 0
             /\ decState' = r.st
    /\ decPhase' = "ready"
    /\ decInit' = <<h, key>>
    /\ flag_finalized' = FALSE
    /\ track' = 0
    /\ last' = [op |-> "init"]
    /\ UNCHANGED <<encVars, twoVars, forged, derail, decRekeys>>

\* the deliveries c can be: chunk j given to a Decryptor that stands at an
\* earlier chunk k of the stream
EarlyAt(c) ==
    {kj \in ChunkIds \X ChunkIds :
        kj[1] < kj[2] /\ c = Wire(kj[2]) /\ decState = encLog[kj[1]].pre}

\* one call of Decryptor::decrypt.  A panic unwinds out of the call before
\* self is written: the Decryptor is as it was and a caller that catches the
\* panic goes on using it.
DecCall(c, ad) ==
    LET r == decrypt(decState, flag_finalized, c, ad)
    IN /\ decPhase = "ready"
       /\ decState' = r.st
       /\ flag_finalized' = r.fin
       /\ track' = IF Mirrors("chunk", c, ad) THEN track + 1 ELSE -1
       /\ derail' = IF derail = NoDerail /\ EarlyAt(c) # {}
                    THEN LET kj == CHOOSE x \in EarlyAt(c) : TRUE
                         IN [at |-> kj[1], got |-> kj[2],
                             first |-> (last.op = "init")]
                    ELSE derail
       /\ last' = [op |-> "decrypt", first |-> (last.op = "init"),
                   second |-> (last.op = "decrypt" /\ last.first), c |-> c,
                   ad |-> ad, pre |-> decState,
                   finBefore |-> flag_finalized, res |-> r.res]
       /\ UNCHANGED <<encVars, twoVars, decPhase, decInit, decRekeys>>

\* bit positions of a ciphertext, one per region: the tag byte, the message
\* body (when there is one), the authenticator's first and last bit
TamperBits(c) ==
    {0, 8 * (c.len - ABYTES + 1), 8 * c.len - 1}
        \cup (IF c.len > ABYTES THEN {8} ELSE {})

\* lengths a ciphertext can be cut to
TruncLens(c) == {0, ABYTES - 1, c.len - 1}

\* a chunk as sent, in any order, with any associated data
DecryptSent(i, ad) ==
    /\ IsChunk(i)
    /\ DecCall(Wire(i), ad)
    /\ UNCHANGED forged

\* a chunk with one bit flipped
DecryptFlipped(i, b) ==
    /\ IsChunk(i)
    /\ b \in TamperBits(Wire(i))
    /\ DecCall(FlipBit(Wire(i), b), encLog[i].ad)
    /\ UNCHANGED forged

\* a chunk cut short
DecryptTruncated(i, n) ==
    /\ IsChunk(i)
    /\ n \in TruncLens(Wire(i))
    /\ DecCall(Truncate(Wire(i), n), encLog[i].ad)
    /\ UNCHANGED forged

\* a chunk sealed for the Decryptor's state by a holder of the key that drives
\* the push primitive itself, with a tag byte of its choice
DecryptForged(tagb, m, ad) ==
    LET r == secretstream_push(decState, m, AdBytes(ad), tagb)
    IN /\ forged < MaxForged
       /\ forged' = forged + 1
       /\ DecCall(Cipher(r.sealed, r.clen), ad)

\* rekey that leaves the state as it is
Decryptor_rekey_no_transition(bound) ==
    /\ decPhase = "ready"
    /\ decRekeys < bound
    /\ decRekeys' = decRekeys + 1
    /\ decState' = decState
    /\ track' = IF Mirrors("rekey", <<>>, None) THEN track + 1 ELSE -1
    /\ last' = [op |-> "rekey", pre |-> decState,
                finBefore |-> flag_finalized]
    /\ UNCHANGED <<encVars, twoVars, decPhase, decInit, flag_finalized,
                   forged, derail>>

\* rekey that starts the stream afresh: the finalized flag is cleared
Decryptor_rekey_clears_flag(bound) ==
    /\ decPhase = "ready"
    /\ decRekeys < bound
    /\ decRekeys' = decRekeys + 1
    /\ decState' = secretstream_rekey(decState)
    /\ flag_finalized' = FALSE
    /\ track' = IF Mirrors("rekey", <<>>, None) THEN track + 1 ELSE -1
    /\ last' = [op |-> "rekey", pre |-> decState,
                finBefore |-> flag_finalized]
    /\ UNCHANGED <<encVars, twoVars, decPhase, decInit, forged, derail>>

\* Decryptor::rekey, called at most bound times
Decryptor_rekey_upto(bound) ==
    /\ decPhase = "ready"
    /\ decRekeys < bound
    /\ decRekeys' = decRekeys + 1
    /\ decState' = secretstream_rekey(decState)
    /\ track' = IF Mirrors("rekey", <<>>, None) THEN track + 1 ELSE -1
    /\ last' = [op |-> "rekey", pre |-> decState,
                finBefore |-> flag_finalized]
    /\ UNCHANGED <<encVars, twoVars, decPhase, decInit, flag_finalized,
                   forged, derail>>

Decryptor_rekey == Decryptor_rekey_upto(MaxRekeys)

is_finalized == flag_finalized

(***************************************************************************)
(* A second Encryptor and a second Decryptor: the same methods, each on    *)
(* the fields of its own instance.                                         *)
(***************************************************************************)
Num2Chunks ==
    Cardinality({i \in 1..Len(enc2.log) : enc2.log[i].op = "chunk"})

Num2EncRekeys ==
    Cardinality({i \in 1..Len(enc2.log) : enc2.log[i].op = "rekey"})

Encryptor2_init(key, h) ==
    /\ enc2.phase = "uninit"
    /\ \E u \in Uninitialized :
          LET r == secretstream_init_push(u, key, h)
          IN /\ r.err = 0
             /\ enc2' = [enc2 EXCEPT !.phase = "ready", !.key = key,
                                     !.header = r.header, !.state = r.st]
    /\ UNCHANGED <<encVars, decVars, dec2>>

\* the two Encryptors share one state: the second one's calls work on the
\* state of the first
Enc2Chunk_aliased(m, ad, tag, method, consume) ==
    LET r == _push(encState, m, ad, tag)
    IN /\ enc2.phase = "ready"
       /\ Num2Chunks < MaxChunks
       /\ encState' = r.st
       /\ enc2' = [enc2 EXCEPT
                      !.state = r.st,
                      !.log = Append(@, [op |-> "chunk", method |-> method,
                                         m |-> m, ad |-> ad,
                                         pre |-> encState, res |-> r.res]),
                      !.phase = IF consume THEN "consumed" ELSE "ready"]
       /\ UNCHANGED <<encPhase, encKey, header, encLog, decVars, dec2>>

Enc2Chunk(m, ad, tag, method, consume) ==
    LET r == _push(enc2.state, m, ad, tag)
    IN /\ enc2.phase = "ready"
       /\ Num2Chunks < MaxChunks
       /\ enc2' = [enc2 EXCEPT
                      !.state = r.st,
                      !.log = Append(@, [op |-> "chunk", method |-> method,
                                         m |-> m, ad |-> ad,
                                         pre |-> enc2.state, res |-> r.res]),
                      !.phase = IF consume THEN "consumed" ELSE "ready"]
       /\ UNCHANGED <<encVars, decVars, dec2>>

Encryptor2_rekey ==
    /\ enc2.phase = "ready"
    /\ Num2EncRekeys < MaxRekeys
    /\ enc2' = [enc2 EXCEPT
                   !.state = secretstream_rekey(enc2.state),
                   !.log = Append(@, [op |-> "rekey", pre |-> enc2.state])]
    /\ UNCHANGED <<encVars, decVars, dec2>>

Decryptor2_init(h, key) ==
    /\ dec2.phase = "uninit"
    /\ \E u \in Uninitialized :
          LET r == secretstream_init_pull(u, h, key)
          IN /\ r.err = 0
             /\ dec2' = [dec2 EXCEPT !.phase = "ready", !.init = <<h, key>>,
                                     !.state = r.st,
                                     !.flag_finalized = FALSE,
                                     !.last = [op |-> "init"]]
    /\ UNCHANGED <<encVars, decVars, enc2>>

Dec2Call(c, ad) ==
    LET r == decrypt(dec2.state, dec2.flag_finalized, c, ad)
    IN /\ dec2.phase = "ready"
       /\ dec2' = [dec2 EXCEPT
                      !.state = r.st,
                      !.flag_finalized = r.fin,
                      !.last = [op |-> "decrypt", c |-> c, ad |-> ad,
                                pre |-> dec2.state,
                                finBefore |-> dec2.flag_finalized,
                                res |-> r.res]]
       /\ UNCHANGED <<encVars, decVars, enc2>>

Decryptor2_rekey ==
    /\ dec2.phase = "ready"
    /\ dec2.rekeys < MaxRekeys
    /\ dec2' = [dec2 EXCEPT
                   !.state = secretstream_rekey(dec2.state),
                   !.rekeys = @ + 1,
                   !.last = [op |-> "rekey", pre |-> dec2.state,
                             finBefore |-> dec2.flag_finalized]]
    /\ UNCHANGED <<encVars, decVars, enc2>>

\* the stream as the API offers it: chunks arrive whole, in any order, with
\* any associated data
Next ==
    \/ \E key \in Keys, h \in Headers : Encryptor_init(key, h)
    \/ \E p \in Payloads : message(p[1], p[2])
    \/ \E p \in Payloads : push(p[1], p[2])
    \/ \E p \in Payloads : rekey_message(p[1], p[2])
    \/ \E p \in Payloads : finalize(p[1], p[2])
    \/ Encryptor_rekey
    \/ \E h \in Headers, key \in Keys : Decryptor_init(h, key)
    \/ \E i \in ChunkIds, ad \in AdOpts : DecryptSent(i, ad)
    \/ Decryptor_rekey

Spec == Init /\ [][Next]_vars

\* the stream over a hostile channel: chunks arrive with a bit flipped, cut
\* short, or sealed by a key holder with a tag byte of its own
NextHostile ==
    \/ \E key \in Keys, h \in Headers : Encryptor_init(key, h)
    \/ \E p \in Payloads : message(p[1], p[2])
    \/ \E p \in Payloads : push(p[1], p[2])
    \/ \E p \in Payloads : rekey_message(p[1], p[2])
    \/ \E p \in Payloads : finalize(p[1], p[2])
    \/ \E h \in Headers, key \in Keys : Decryptor_init(h, key)
    \/ \E i \in ChunkIds, ad \in AdOpts : DecryptSent(i, ad)
    \/ \E i \in ChunkIds : \E b \in TamperBits(Wire(i)) : DecryptFlipped(i, b)
    \/ \E i \in ChunkIds : \E n \in TruncLens(Wire(i)) : DecryptTruncated(i, n)
    \/ \E tagb \in ForgedTags : DecryptForged(tagb, <<7>>, None)

SpecHostile == Init /\ [][NextHostile]_vars

\* the stream with a second key holder: the Decryptor is fed the Encryptor's
\* chunks and chunks the key holder seals for it, and rekeys at will
NextKeyHolder ==
    \/ \E key \in Keys, h \in Headers : Encryptor_init(key, h)
    \/ \E p \in Payloads : message(p[1], p[2])
    \/ \E p \in Payloads : push(p[1], p[2])
    \/ \E p \in Payloads : rekey_message(p[1], p[2])
    \/ \E p \in Payloads : finalize(p[1], p[2])
    \/ \E h \in Headers, key \in Keys : Decryptor_init(h, key)
    \/ \E i \in ChunkIds : DecryptSent(i, encLog[i].ad)
    \/ \E tagb \in ForgedTags : DecryptForged(tagb, <<7>>, None)
    \/ Decryptor_rekey

SpecKeyHolder == Init /\ [][NextKeyHolder]_vars

\* the Decryptor's next call takes the Encryptor's next chunk
DecryptNext ==
    /\ track >= 0
    /\ IsChunk(track + 1)
    /\ DecryptSent(track + 1, encLog[track + 1].ad)

\* the stream between two parties that keep to the order of the stream: the
\* Decryptor is given the chunks whole and in order, and each side calls
\* rekey() when it sees fit, several times in a row if it likes
NextInOrder ==
    \/ \E key \in Keys, h \in Headers : Encryptor_init(key, h)
    \/ \E p \in Payloads : message(p[1], p[2])
    \/ \E p \in Payloads : push(p[1], p[2])
    \/ \E p \in Payloads : rekey_message(p[1], p[2])
    \/ \E p \in Payloads : finalize(p[1], p[2])
    \/ Encryptor_rekey_upto(MaxRekeysInRow)
    \/ \E h \in Headers, key \in Keys : Decryptor_init(h, key)
    \/ DecryptNext
    \/ Decryptor_rekey_upto(MaxRekeysInRow)

SpecInOrder == Init /\ [][NextInOrder]_vars

\* the second Decryptor has repeated every call of the first
InStep == seen = last

\* the second Decryptor repeats the call the first one made last
Repeat ==
    /\ ~InStep
    /\ seen' = last
    /\ CASE last.op = "init" -> Decryptor2_init(decInit[1], decInit[2])
         [] last.op = "decrypt" -> Dec2Call(last.c, last.ad)
         [] last.op = "rekey" -> Decryptor2_rekey

\* two Decryptors on one stream: whatever call the first one makes, the
\* second one makes next
NextTwins ==
    \/ \E key \in Keys, h \in Headers : Encryptor_init(key, h)
    \/ message(<<7>>, Some(<<5>>))
    \/ push(<<>>, None)
    \/ rekey_message(<<7>>, Some(<<5>>))
    \/ finalize(<<7>>, None)
    \/ Encryptor_rekey
    \/ InStep /\ \E h \in Headers, key \in Keys : Decryptor_init(h, key)
    \/ InStep /\ \E i \in ChunkIds, ad \in AdOpts : DecryptSent(i, ad)
    \/ InStep /\ \E i \in ChunkIds : DecryptTruncated(i, ABYTES - 1)
    \/ InStep /\ DecryptForged(4, <<7>>, None)
    \/ InStep /\ Decryptor_rekey
    \/ Repeat

SpecTwins == Init /\ [][NextTwins]_vars

\* chunks of the second Encryptor
Chunk2Ids == {i \in 1..Len(enc2.log) : enc2.log[i].op = "chunk"}

\* two streams side by side under one key, each with its own Encryptor,
\* header and Decryptor, their operations interleaved in any way
NextStreams ==
    \/ Encryptor_init(1, 1)
    \/ message(<<7>>, Some(<<5>>))
    \/ finalize(<<>>, None)
    \/ Encryptor_rekey
    \/ Decryptor_init(1, 1)
    \/ \E i \in ChunkIds : DecryptSent(i, encLog[i].ad)
    \/ Decryptor_rekey
    \/ Encryptor2_init(1, 2) /\ UNCHANGED seen
    \/ Enc2Chunk(<<7>>, Some(<<5>>), TAG_MESSAGE, "message", FALSE)
          /\ UNCHANGED seen
    \/ Enc2Chunk(<<>>, None, TAG_FINAL, "finalize", TRUE) /\ UNCHANGED seen
    \/ Encryptor2_rekey /\ UNCHANGED seen
    \/ Decryptor2_init(2, 1) /\ UNCHANGED seen
    \/ \E i \in Chunk2Ids :
          Dec2Call(enc2.log[i].res.val, enc2.log[i].ad) /\ UNCHANGED seen
    \/ Decryptor2_rekey /\ UNCHANGED seen

SpecStreams == Init /\ [][NextStreams]_vars

(***************************************************************************)
(* Vocabulary of the properties.                                           *)
(***************************************************************************)
\* the Tag each chunk method of the Encryptor stands for
TagOfMethod(method) ==
    CASE method = "message" -> "Message"
      [] method = "push" -> "Push"
      [] method = "rekey_message" -> "Rekey"
      [] method = "finalize" -> "Final"

\* the Decryptor was initialised with the Encryptor's header and key
Matched ==
    /\ encPhase # "uninit"
    /\ decPhase # "uninit"
    /\ decInit = <<header, encKey>>

\* the state Encryptor::init left the Encryptor in
EncInitialState == IF encLog = <<>> THEN encState ELSE encLog[1].pre

\* the state Decryptor::init(h, key) leaves when the memory it starts from
\* holds zeroes
PulledState(h, key) == secretstream_init_pull(ZeroState, h, key).st

\* the state Encryptor::init(key) leaves when the memory it starts from holds
\* zeroes and the header it generates is h
PushedState(key, h) == secretstream_init_push(ZeroState, key, h).st

\* the Encryptor's state after its i-th operation
PostOf(i) == IF i = Len(encLog) THEN encState ELSE encLog[i + 1].pre

\* the first n operations of the Encryptor were chunks
ChunksOnly(n) == \A i \in 1..n : IsChunk(i)

\* what decrypt returns for chunk i when it succeeds
Decoded(i) == Ok(<<encLog[i].m, TagOfMethod(encLog[i].method)>>)

\* what the Decryptor would return if it were now given c with ad
WouldReturn(c, ad) == decrypt(decState, flag_finalized, c, ad).res

LastDecrypt == last.op = "decrypt"

(***************************************************************************)
(* C1  Round trip: a Decryptor initialised with the Encryptor's header and *)
(* key that has been fed the Encryptor's chunks 1..n in order, each with   *)
(* the associated data it was pushed with, returned Ok((p, tag)) for the   *)
(* n-th chunk: the plaintext and the tag that were encrypted.              *)
(***************************************************************************)
C1_RoundTrip ==
    (Matched /\ track >= 1 /\ ChunksOnly(track))
        => (LastDecrypt /\ last.res = Decoded(track))

C1_Witness ==
    /\ Matched
    /\ track = 2
    /\ ChunksOnly(2)
    /\ encLog[1].method = "push"
    /\ encLog[2].method = "finalize"
    /\ last.res = Ok(<<<<7>>, "Final">>)

\* chunk 2 was the first call of the Decryptor, which stood at chunk 1
Chunk2GivenFirst == derail = [at |-> 1, got |-> 2, first |-> TRUE]

(***************************************************************************)
(* C2  Ordering sensitivity, as claimed: a fresh Decryptor with the        *)
(* Encryptor's header and key that is given chunk 2 first and chunk 1      *)
(* second returns an error for chunk 1, the second attempt; chunk 2        *)
(* decodes when it is given in its true position after chunk 1.            *)
(***************************************************************************)
C2_OrderingSensitivity ==
    /\ (/\ Matched
        /\ ChunksOnly(2)
        /\ Chunk2GivenFirst
        /\ LastDecrypt
        /\ last.second
        /\ last.c = Wire(1)) => last.res = Err
    /\ (Matched /\ track = 2 /\ ChunksOnly(2)) => last.res = Decoded(2)

\* the Decryptor stood at chunk k of the stream when its latest call began
StoodAt(k) == IsChunk(k) /\ last.pre = encLog[k].pre

(***************************************************************************)
(* C3  Dropped or early-delivered chunk, as claimed: once the Decryptor    *)
(* has been given a chunk later than the one its state stands at (the      *)
(* chunk it stands at was skipped, or a later one came first), that        *)
(* decrypt call and every decrypt call after it returns an error: no       *)
(* chunk of the stream authenticates any more.                             *)
(***************************************************************************)
C3_EarlyChunkRejected ==
    derail # NoDerail => (LastDecrypt => last.res = Err)

\* c is chunk i with exactly one bit flipped
OneBitOff(c, i) == \E b \in 0..(8 * Wire(i).len - 1) : c = FlipBit(Wire(i), b)

(***************************************************************************)
(* C4  Tamper detection.  As claimed: at the chunk's own stream position,  *)
(* decrypt returns an error if the ciphertext differs from the produced    *)
(* one in a single bit, or if the associated data given to decrypt differs *)
(* from the associated data given to the encrypt call.                     *)
(***************************************************************************)
C4_Original ==
    \A i \in ChunkIds :
        (/\ LastDecrypt
         /\ StoodAt(i)
         /\ \/ OneBitOff(last.c, i)
            \/ last.c = Wire(i) /\ last.ad # encLog[i].ad)
            => last.res = Err

(***************************************************************************)
(* C4 as amended: the associated data differs when its bytes differ, no    *)
(* associated data (None) counting as the empty byte string: None and      *)
(* Some(empty) are the same input to the primitive.                        *)
(***************************************************************************)
C4_TamperDetection ==
    \A i \in ChunkIds :
        (/\ LastDecrypt
         /\ StoodAt(i)
         /\ \/ OneBitOff(last.c, i)
            \/ last.c = Wire(i) /\ AdBytes(last.ad) # AdBytes(encLog[i].ad))
            => last.res = Err

C4_Witness ==
    /\ IsChunk(2)
    /\ LastDecrypt
    /\ StoodAt(2)
    /\ encLog[2].m = <<>>
    /\ OneBitOff(last.c, 2)
    /\ last.res = Err

FinalDecoded ==
    LastDecrypt /\ last.res.kind = "Ok" /\ last.res.val[2] = "Final"

(***************************************************************************)
(* C5  Finalization is set and sticky: a decrypt that returned Ok with     *)
(* Tag::Final leaves is_finalized() true, and no later call of the         *)
(* Decryptor (decrypt, successful or not, or rekey) makes it false again.  *)
(***************************************************************************)
C5_FinalizedSticky ==
    /\ [](FinalDecoded => is_finalized)
    /\ [][is_finalized => is_finalized']_vars

\* a decrypt that succeeded with another tag after the stream was finalized
C5_Witness ==
    /\ is_finalized
    /\ LastDecrypt
    /\ last.finBefore
    /\ last.res.kind = "Ok"
    /\ last.res.val[2] = "Message"
    /\ decRekeys >= 1

EncryptorOperation ==
    \/ \E p \in Payloads : message(p[1], p[2])
    \/ \E p \in Payloads : push(p[1], p[2])
    \/ \E p \in Payloads : rekey_message(p[1], p[2])
    \/ \E p \in Payloads : finalize(p[1], p[2])
    \/ Encryptor_rekey

(***************************************************************************)
(* C6  Encryptor termination: the chunk finalize emits is the last         *)
(* operation of its Encryptor, so it is the last chunk and the only Final  *)
(* one; the Encryptor is then consumed and none of message, push,          *)
(* rekey_message, finalize and rekey can be performed on it.               *)
(***************************************************************************)
C6_EncryptorTerminal ==
    /\ \A i \in ChunkIds :
          encLog[i].method = "finalize"
              => (i = Len(encLog) /\ encPhase = "consumed")
    /\ encPhase = "consumed" =>
          /\ IsChunk(Len(encLog))
          /\ encLog[Len(encLog)].method = "finalize"
          /\ ~ENABLED EncryptorOperation

C6_Witness ==
    /\ encPhase = "consumed"
    /\ Len(encLog) = 2
    /\ IsChunk(1)
    /\ encLog[2].method = "finalize"

(***************************************************************************)
(* C7  Fixed expansion: every chunk the Encryptor returned for a plaintext *)
(* of n bytes is n + ABYTES bytes long, and every successful decrypt of a  *)
(* ciphertext of c bytes returned c - ABYTES bytes.                        *)
(***************************************************************************)
C7_FixedExpansion ==
    /\ \A i \in ChunkIds :
          /\ encLog[i].res.kind = "Ok"
          /\ Wire(i).len = Len(encLog[i].m) + ABYTES
    /\ (LastDecrypt /\ last.res.kind = "Ok")
          => Len(last.res.val[1]) = last.c.len - ABYTES

C7_Witness ==
    /\ track = 2
    /\ ChunksOnly(2)
    /\ Wire(1).len = ABYTES
    /\ Wire(2).len = ABYTES + 1
    /\ LastDecrypt
    /\ last.res.kind = "Ok"
    /\ Len(last.res.val[1]) = 1

(***************************************************************************)
(* C8  Underflow guard, as claimed: a decrypt of a ciphertext shorter than *)
(* ABYTES bytes returns an error result to the caller; the call does not   *)
(* abort by panic.                                                         *)
(***************************************************************************)
C8_UnderflowGuard ==
    (LastDecrypt /\ last.c.len < ABYTES) => last.res = Err

KnownTagBytes == {TAG_MESSAGE, TAG_PUSH, TAG_REKEY, TAG_FINAL}

\* the latest call's chunk passed the primitive with an unknown tag byte
UnknownTagAuthenticated ==
    /\ LastDecrypt
    /\ last.c.len >= ABYTES
    /\ LET r == secretstream_pull(last.pre, last.c, AdBytes(last.ad))
       IN r.err = 0 /\ r.tag \notin KnownTagBytes

(***************************************************************************)
(* C9  Unknown tag fails closed: when the pull primitive authenticates a   *)
(* chunk whose tag byte is none of the four known ones, decrypt returns an *)
(* error, no plaintext and no Tag, and is_finalized() is left as it was.   *)
(***************************************************************************)
C9_UnknownTagFailsClosed ==
    UnknownTagAuthenticated
        => (last.res = Err /\ is_finalized = last.finBefore)

C9_Witness ==
    /\ UnknownTagAuthenticated
    /\ last.c.sealed[5] = 6
    /\ ~is_finalized
    /\ decState # last.pre

\* Encryptor: state after message(m, ad) from S, then rekey()
MessageThenRekey(S, m, ad) ==
    secretstream_rekey(_push(S, m, ad, TAG_MESSAGE).st)

\* Decryptor: state after the decrypt, from S, of the chunk message(m, ad)
\* gives from S, then rekey()
DecryptMessageThenRekey(S, fin, m, ad) ==
    LET c == _push(S, m, ad, TAG_MESSAGE).res.val
    IN secretstream_rekey(decrypt(S, fin, c, ad).st)

RekeyDecoded ==
    LastDecrypt /\ last.res.kind = "Ok" /\ last.res.val[2] = "Rekey"

(***************************************************************************)
(* C10  Implicit / explicit rekey equivalence, as claimed: a Rekey-tagged  *)
(* chunk with plaintext p leaves each side's state equal to the state      *)
(* reached from the same state by a Message-tagged chunk with the same     *)
(* plaintext (and associated data) followed by rekey(): for the Encryptor  *)
(* after rekey_message(p), for the Decryptor after the decrypt of that     *)
(* chunk.                                                                  *)
(***************************************************************************)
C10_RekeyEquivalence ==
    /\ \A i \in ChunkIds :
          encLog[i].method = "rekey_message"
              => PostOf(i) = MessageThenRekey(encLog[i].pre, encLog[i].m,
                                              encLog[i].ad)
    /\ RekeyDecoded
          => decState = DecryptMessageThenRekey(last.pre, last.finBefore,
                                                last.res.val[1], last.ad)

(***************************************************************************)
(* C11  Matched explicit rekey keeps the two sides synchronised: while the *)
(* Decryptor's calls repeat the Encryptor's operations one for one (every  *)
(* chunk in order with its associated data, rekey() wherever and as often  *)
(* as the Encryptor called it), the Decryptor's state is the state the     *)
(* Encryptor had at that point, and every chunk decodes to the plaintext   *)
(* and tag it was pushed with.                                             *)
(***************************************************************************)
C11_MatchedRekey ==
    (Matched /\ track >= 0)
        => /\ decState = (IF track = 0 THEN EncInitialState
                                       ELSE PostOf(track))
           /\ (track >= 1 /\ IsChunk(track))
                 => (LastDecrypt /\ last.res = Decoded(track))

\* chunk, rekey, rekey, chunk: both sides rekeyed twice after the first chunk
C11_Witness ==
    /\ Matched
    /\ track = 4
    /\ IsChunk(1)
    /\ encLog[2].op = "rekey"
    /\ encLog[3].op = "rekey"
    /\ IsChunk(4)
    /\ decRekeys = 2
    /\ last.res = Decoded(4)

(***************************************************************************)
(* C12  Rekey always changes the state: rekey() applied to the state an    *)
(* Encryptor or a Decryptor is in gives a different state, every rekey()   *)
(* either side performed left a state different from the one it started    *)
(* from, and the rekey a Rekey-tagged chunk triggers leaves a state        *)
(* different from the one the chunk step alone leads to.                   *)
(***************************************************************************)
C12_RekeyChangesState ==
    /\ encPhase = "ready" => secretstream_rekey(encState) # encState
    /\ decPhase = "ready" => secretstream_rekey(decState) # decState
    /\ \A i \in 1..Len(encLog) :
          encLog[i].op = "rekey" => PostOf(i) # encLog[i].pre
    /\ last.op = "rekey" => decState # last.pre
    /\ \A i \in ChunkIds :
          encLog[i].method = "rekey_message"
              => PostOf(i) # ChunkAdvance(encLog[i].pre, Wire(i).sealed)
    /\ RekeyDecoded => decState # ChunkAdvance(last.pre, last.c.sealed)

\* a Rekey-tagged chunk, then rekey() twice in a row, on both sides
C12_Witness ==
    /\ Matched
    /\ track = 3
    /\ IsChunk(1)
    /\ encLog[1].method = "rekey_message"
    /\ encLog[2].op = "rekey"
    /\ encLog[3].op = "rekey"
    /\ last.op = "rekey"
    /\ decRekeys = 2

\* the latest call gave the Decryptor chunk K again, with the associated data
\* of chunk K, in the state chunk K leaves behind
DuplicateOf(K) ==
    /\ Matched
    /\ LastDecrypt
    /\ IsChunk(K)
    /\ last.c = Wire(K)
    /\ AdBytes(last.ad) = AdBytes(encLog[K].ad)
    /\ last.pre = PostOf(K)

(***************************************************************************)
(* C14  Duplicated chunk is rejected: a ciphertext the Decryptor has just  *)
(* decrypted successfully returns an error when it is presented again with *)
(* the same associated data as the next call, whatever its tag.            *)
(***************************************************************************)
C14_DuplicateRejected ==
    /\ (LastDecrypt /\ last.res.kind = "Ok")
          => WouldReturn(last.c, last.ad) = Err
    /\ \A K \in ChunkIds :
          DuplicateOf(K) => last.res = Err

\* the Final chunk of a two-chunk stream, given a second time
C14_Witness ==
    /\ DuplicateOf(2)
    /\ IsChunk(1)
    /\ encLog[2].method = "finalize"
    /\ last.ad = encLog[2].ad
    /\ last.res = Err

\* the latest call was a decrypt that did not return Ok
FailedDecrypt == LastDecrypt /\ last.res.kind # "Ok"

(***************************************************************************)
(* C15  A failed decrypt exposes nothing and marks nothing: a decrypt call *)
(* that does not return Ok (the authenticator does not verify, the tag     *)
(* byte is unknown, the ciphertext is shorter than ABYTES) hands the       *)
(* caller no plaintext bytes and no tag, and is_finalized() has the value  *)
(* it had before the call.                                                 *)
(***************************************************************************)
C15_FailedDecryptFrame ==
    FailedDecrypt
        => /\ DOMAIN last.res = {"kind"}
           /\ last.res.kind \in {"Err", "Panic"}
           /\ is_finalized = last.finBefore

\* the Final chunk with one bit flipped, given at its own position
C15_Witness ==
    /\ FailedDecrypt
    /\ last.res = Err
    /\ IsChunk(2)
    /\ encLog[2].method = "finalize"
    /\ StoodAt(2)
    /\ OneBitOff(last.c, 2)
    /\ ~is_finalized

\* the step is a call of Encryptor::rekey
EncRekeyStep ==
    /\ Len(encLog') = Len(encLog) + 1
    /\ encLog'[Len(encLog')].op = "rekey"

\* the step is a call of Decryptor::rekey
DecRekeyStep == decRekeys' = decRekeys + 1

(***************************************************************************)
(* C16  Explicit rekey has no effect other than on the stream state: a     *)
(* rekey() of the Encryptor emits no chunk, leaves the chunks emitted so   *)
(* far, the key and the header as they were and the Encryptor in Ready; a  *)
(* rekey() of the Decryptor returns no value and leaves is_finalized() and *)
(* the Decryptor's readiness as they were; neither touches the other side. *)
(* In Ready rekey() can always be called, also right after a rekey().      *)
(***************************************************************************)
C16_RekeyFrame ==
    /\ [][EncRekeyStep =>
            /\ encPhase = "ready" /\ encPhase' = "ready"
            /\ SubSeq(encLog', 1, Len(encLog)) = encLog
            /\ UNCHANGED <<encKey, header, decVars>>]_vars
    /\ [][DecRekeyStep =>
            /\ decPhase = "ready" /\ decPhase' = "ready"
            /\ is_finalized' = is_finalized
            /\ DOMAIN last' = {"op", "pre", "finBefore"}
            /\ UNCHANGED <<encVars, decInit, forged>>]_vars
    /\ []((encPhase = "ready" /\ NumEncRekeys < MaxRekeysInRow)
             => ENABLED Encryptor_rekey_upto(MaxRekeysInRow))
    /\ []((decPhase = "ready" /\ decRekeys < MaxRekeysInRow)
             => ENABLED Decryptor_rekey_upto(MaxRekeysInRow))

\* rekey() twice in a row on each side, as the first calls after init
C16_Witness ==
    /\ Len(encLog) >= 2
    /\ encLog[1].op = "rekey"
    /\ encLog[2].op = "rekey"
    /\ encPhase = "ready"
    /\ last.op = "rekey"
    /\ last.pre = secretstream_rekey(PulledState(decInit[1], decInit[2]))
    /\ decRekeys = 2

\* the key and the nonce (counter, inonce) a chunk sealed in state S gets
KeyNonce(S) == <<S.k, S.ctr, S.inonce>>

(***************************************************************************)
(* C17  Per-chunk key/nonce uniqueness: no two chunks of the Encryptor's   *)
(* stream were sealed under the same (key, nonce) pair, the pair the next  *)
(* chunk would be sealed under was used by none of them, whatever chunks   *)
(* and explicit or implicit rekeys lie between, and a successful decrypt   *)
(* leaves the Decryptor with a pair other than the one it verified with.   *)
(***************************************************************************)
C17_KeyNonceUnique ==
    /\ \A i, j \in ChunkIds :
          i < j => KeyNonce(encLog[i].pre) # KeyNonce(encLog[j].pre)
    /\ \A i \in ChunkIds : KeyNonce(encLog[i].pre) # KeyNonce(encState)
    /\ (LastDecrypt /\ last.res.kind = "Ok")
          => KeyNonce(decState) # KeyNonce(last.pre)

\* a chunk, rekey(), a chunk: both chunks sealed with counter 1
C17_Witness ==
    /\ Len(encLog) = 3
    /\ IsChunk(1)
    /\ encLog[2].op = "rekey"
    /\ IsChunk(3)
    /\ encLog[1].pre.ctr = 1
    /\ encLog[3].pre.ctr = 1
    /\ encLog[1].method = "message"

(***************************************************************************)
(* C18  Finalized flag soundness: is_finalized() is false before and right *)
(* after Decryptor::init; it turns true only in a decrypt call that        *)
(* returns Ok with Tag::Final; a decrypt that returns Message, Push or     *)
(* Rekey, a decrypt that fails and a rekey() leave it as it was, so it is  *)
(* false as long as no Final chunk has been decoded.                       *)
(***************************************************************************)
C18_FlagSoundness ==
    /\ []((decPhase = "uninit" \/ last.op = "init") => ~is_finalized)
    /\ [][(~is_finalized /\ is_finalized') => FinalDecoded']_vars
    /\ []((LastDecrypt /\ ~FinalDecoded) => is_finalized = last.finBefore)
    /\ [](last.op = "rekey" => is_finalized = last.finBefore)

\* a Rekey chunk decoded, then rekey(): the flag is still false
C18_Witness ==
    /\ Matched
    /\ IsChunk(1)
    /\ encLog[1].method = "rekey_message"
    /\ last.op = "rekey"
    /\ last.pre = PostOf(1)
    /\ ~is_finalized

\* the latest call gave the Decryptor chunk i while it stood before the
\* rekey() the Encryptor called just before sealing chunk i
MissedRekey(i) ==
    /\ Matched
    /\ LastDecrypt
    /\ IsChunk(i)
    /\ i > 1
    /\ encLog[i - 1].op = "rekey"
    /\ last.c = Wire(i)
    /\ last.pre = encLog[i - 1].pre

\* the latest call gave the Decryptor chunk i after a rekey() the Encryptor
\* did not call before sealing chunk i
ExtraRekey(i) ==
    /\ Matched
    /\ LastDecrypt
    /\ IsChunk(i)
    /\ last.c = Wire(i)
    /\ last.pre = secretstream_rekey(encLog[i].pre)

(***************************************************************************)
(* C19  Unmatched explicit rekey breaks the stream: when the Encryptor     *)
(* called rekey() before a chunk and the Decryptor did not, or the         *)
(* Decryptor called rekey() where the Encryptor did not, the decrypt of    *)
(* that chunk returns an error, whatever the associated data, and no       *)
(* plaintext.                                                              *)
(***************************************************************************)
C19_UnmatchedRekey ==
    /\ \A i \in ChunkIds : (MissedRekey(i) \/ ExtraRekey(i)) => last.res = Err
    /\ \A i \in ChunkIds :
          (Matched /\ last.op = "rekey" /\ last.pre = encLog[i].pre)
              => \A ad \in AdOpts : WouldReturn(Wire(i), ad) = Err

\* the Decryptor called rekey() before the first chunk, the Encryptor after it
C19_Witness ==
    /\ ExtraRekey(1)
    /\ last.first = FALSE
    /\ last.ad = encLog[1].ad
    /\ Len(encLog) >= 2
    /\ encLog[2].op = "rekey"
    /\ last.res = Err

TagByteOfMethod(method) ==
    CASE method = "message" -> TAG_MESSAGE
      [] method = "push" -> TAG_PUSH
      [] method = "rekey_message" -> TAG_REKEY
      [] method = "finalize" -> TAG_FINAL

\* the state a logged operation of an Encryptor leads to from the state it
\* started in
After(e) ==
    IF e.op = "rekey"
    THEN secretstream_rekey(e.pre)
    ELSE _push(e.pre, e.m, e.ad, TagByteOfMethod(e.method)).st

\* an Encryptor initialised with key and header h that performed the
\* operations of log with no other instance around has these results and
\* this state
EncryptorAlone(key, h, log, state) ==
    /\ \A i \in 1..Len(log) :
          /\ log[i].pre = (IF i = 1 THEN PushedState(key, h)
                                    ELSE After(log[i - 1]))
          /\ log[i].op = "chunk"
                => log[i].res = _push(log[i].pre, log[i].m, log[i].ad,
                                      TagByteOfMethod(log[i].method)).res
    /\ state = (IF log = <<>> THEN PushedState(key, h)
                               ELSE After(log[Len(log)]))

\* a Decryptor whose latest call was call has the result, state and flag
\* that call gives on its own
DecryptorAlone(init, call, state, fin) ==
    CASE call.op = "init" ->
           state = PulledState(init[1], init[2]) /\ ~fin
      [] call.op = "decrypt" ->
           LET r == decrypt(call.pre, call.finBefore, call.c, call.ad)
           IN call.res = r.res /\ state = r.st /\ fin = r.fin
      [] call.op = "rekey" ->
           state = secretstream_rekey(call.pre) /\ fin = call.finBefore
      [] OTHER -> TRUE

\* the instances a step changes
Touched ==
    {x \in {"enc", "dec", "enc2", "dec2"} :
        \/ x = "enc" /\ encVars' # encVars
        \/ x = "dec" /\ decVars' # decVars
        \/ x = "enc2" /\ enc2' # enc2
        \/ x = "dec2" /\ dec2' # dec2}

(***************************************************************************)
(* C20  Stream independence under interleaving: with two Encryptors and    *)
(* two Decryptors at work on two streams, every step changes the fields of *)
(* one instance only, and in every interleaving each instance has the      *)
(* results (ciphertexts, plaintexts, tags, errors), the state and the      *)
(* is_finalized value that its own operations give when run alone.         *)
(***************************************************************************)
C20_StreamIndependence ==
    /\ [][Cardinality(Touched) <= 1]_vars
    /\ [](encPhase # "uninit"
             => EncryptorAlone(encKey, header, encLog, encState))
    /\ [](enc2.phase # "uninit"
             => EncryptorAlone(enc2.key, enc2.header, enc2.log, enc2.state))
    /\ []DecryptorAlone(decInit, last, decState, is_finalized)
    /\ []DecryptorAlone(dec2.init, dec2.last, dec2.state,
                        dec2.flag_finalized)

\* both streams ran to their Final chunk, the second one with a rekey() on
\* both sides
C20_Witness ==
    /\ FinalDecoded
    /\ track = 2
    /\ dec2.flag_finalized
    /\ Len(enc2.log) = 3
    /\ dec2.rekeys = 1
    /\ dec2.last.res = Ok(<<<<>>, "Final">>)

====
